---------------------------- MODULE Spec2Model ----------------------------
(***************************************************************************)
(* HUC8 lookup: the rate-limited geocoder, the boundary (WBD) service, the *)
(* map controller and the HUC8App orchestrator, as a state machine.        *)
(*                                                                         *)
(* Execution is the browser's event loop: one step of the model is one     *)
(* macrotask (a DOM event, a timer, a network response) together with all  *)
(* the synchronous code and promise continuations it runs.  The two awaits *)
(* of one request (fetch, then response.json()) are a single response      *)
(* event: no program state changes between them.                           *)
(*                                                                         *)
(* Strings that the code inspects or builds are sequences of fragments     *)
(* (an error message) or of characters (a query, a coordinate), so that    *)
(* trim, parseFloat, includes and concatenation are computed.              *)
(***************************************************************************)
EXTENDS Integers, Sequences, FiniteSets, TLC

VARIABLES
    now,              \* Date.now(), in ms
    lastRequestTime,  \* geocoder.ts: module-level timestamp, 0 = never
    inflight,         \* async invocations not yet settled, in start order
    dom,              \* the DOM elements HUC8App holds
    mapc,             \* MapController: primaryHUCLayer, adjacentHUCLayer, markerLayer
    currentHUC8,      \* HUC8App.currentHUC8: <<>> (null) or <<feature>>
    hist              \* history: acquisition times and the last adjacency result

vars == <<now, lastRequestTime, inflight, dom, mapc, currentHUC8, hist>>

---------------------------------------------------------------------------
(* Bounds of the model *)

\* Date.now() when the page (or the test file) is loaded
StartTime == 5000
\* one Tick of the clock, in ms
TickDelta == 550
\* the clock stops after this many ticks
MaxTicks == 2
\* invocations (pipelines) admitted in flight at once
MaxInFlight == 2
\* invocations started in one behaviour
MaxStarts == 4
\* layers a test of MapController puts on the map, of each kind
MaxLayers == 3

MaxNow == StartTime + MaxTicks * TickDelta

---------------------------------------------------------------------------
(* Program constants *)

MIN_REQUEST_INTERVAL == 1100

NOMINATIM_BASE_URL == "https://nominatim.openstreetmap.org/search"

WBD_BASE_URL == "https://hydro.nationalmap.gov/arcgis/rest/services/wbd/MapServer/4"

---------------------------------------------------------------------------
(* Data *)

\* HUC8Feature: properties and geometry; a ring is named, its positions are
\* not modelled.
FeatA ==
    [huc8 |-> "02070010", name |-> "Middle Potomac-Anacostia-Occoquan",
     geometry |-> [type |-> "Polygon", coordinates |-> <<"a1", "a2">>]]

FeatB ==
    [huc8 |-> "02070008", name |-> "Upper Potomac",
     geometry |-> [type |-> "MultiPolygon",
                   coordinates |-> << <<"b1">>, <<"b2", "b3">> >>]]

HUC8Features == {FeatA, FeatB}

\* The feature lists a WBD response can carry: no feature twice.
FeatureLists ==
    { <<>> } \cup { <<f>> : f \in HUC8Features }
      \cup { p \in HUC8Features \X HUC8Features : p[1] # p[2] }

\* NominatimResult: lat and lon are strings
NomDC == [lat |-> <<"3", "8">>, lon |-> <<"-", "7", "7">>, display_name |-> "Washington"]

NomNY == [lat |-> <<"4", "0">>, lon |-> <<"-", "7", "4">>, display_name |-> "New York"]

\* What fetch can produce: a rejection (network failure), or a response with
\* ok/status and a body.  A WBD body is [hasFeatures, features]; a Nominatim
\* body is a sequence of results.
NetworkError == [isError |-> TRUE, message |-> <<"Failed to fetch">>]

\* a rejection value that is not an instance of Error (a mocked or wrapped
\* fetch can reject with any value)
NonError == [isError |-> FALSE, message |-> <<>>]

\* reason is <<>> unless the fetch promise rejected
RejectionReasons == {NetworkError, NonError}

WBDResponses ==
    { [rejected |-> TRUE, reason |-> <<e>>, ok |-> FALSE, status |-> 0,
       body |-> [hasFeatures |-> FALSE, features |-> <<>>]] : e \in RejectionReasons }
    \cup
    { [rejected |-> FALSE, reason |-> <<>>, ok |-> FALSE, status |-> 500,
       body |-> [hasFeatures |-> FALSE, features |-> <<>>]],
      [rejected |-> FALSE, reason |-> <<>>, ok |-> TRUE, status |-> 200,
       body |-> [hasFeatures |-> FALSE, features |-> <<>>]] }
    \cup { [rejected |-> FALSE, reason |-> <<>>, ok |-> TRUE, status |-> 200,
            body |-> [hasFeatures |-> TRUE, features |-> fs]] : fs \in FeatureLists }

NominatimResponses ==
    { [rejected |-> TRUE, reason |-> <<e>>, ok |-> FALSE, status |-> 0, body |-> <<>>] :
         e \in RejectionReasons }
    \cup { [rejected |-> FALSE, reason |-> <<>>, ok |-> FALSE, status |-> 500, body |-> <<>>] }
    \cup { [rejected |-> FALSE, reason |-> <<>>, ok |-> TRUE, status |-> 200, body |-> b] :
              b \in { <<>>, <<NomNY, NomDC>> } }

\* What the user can have typed in the address input
Whitespace == {" ", "\t"}

QueryInputs == { <<>>, <<" ", "\t">>, <<"d", "c">>, <<" ", "d", "c", " ">> }

---------------------------------------------------------------------------
(* Pure functions *)

RECURSIVE TrimStart(_)
TrimStart(s) ==
    IF s # <<>> /\ Head(s) \in Whitespace THEN TrimStart(Tail(s)) ELSE s

RECURSIVE TrimEnd(_)
TrimEnd(s) ==
    IF s # <<>> /\ s[Len(s)] \in Whitespace
    THEN TrimEnd(SubSeq(s, 1, Len(s) - 1)) ELSE s

\* String.prototype.trim
Trim(s) == TrimEnd(TrimStart(s))

DigitValue(c) ==
    CASE c = "0" -> 0 [] c = "1" -> 1 [] c = "2" -> 2 [] c = "3" -> 3
      [] c = "4" -> 4 [] c = "5" -> 5 [] c = "6" -> 6 [] c = "7" -> 7
      [] c = "8" -> 8 [] c = "9" -> 9

RECURSIVE ParseDigits(_, _)
ParseDigits(s, acc) ==
    IF s = <<>> THEN acc ELSE ParseDigits(Tail(s), 10 * acc + DigitValue(Head(s)))

\* parseFloat on a signed decimal numeral (whole degrees in the model)
ParseFloat(s) ==
    IF s # <<>> /\ Head(s) = "-" THEN 0 - ParseDigits(Tail(s), 0)
    ELSE ParseDigits(s, 0)

RECURSIVE Flat(_)
\* Array.prototype.flat(): one level
Flat(ss) == IF ss = <<>> THEN <<>> ELSE Head(ss) \o Flat(Tail(ss))

\* message.includes(fragment)
Includes(message, fragment) == \E i \in 1..Len(message) : message[i] = fragment

\* `${n}` for a number
NumberToString(n) == ToString(n)

\* mutant: of a MultiPolygon only the rings of the first polygon are sent
toEsriGeometry_FirstPolygon(geometry) ==
    IF geometry.type = "Polygon"
    THEN [rings |-> geometry.coordinates, wkid |-> 4326]
    ELSE [rings |-> geometry.coordinates[1], wkid |-> 4326]

\* huc-service toEsriGeometry
toEsriGeometry(geometry) ==
    IF geometry.type = "Polygon"
    THEN [rings |-> geometry.coordinates, wkid |-> 4326]
    ELSE [rings |-> Flat(geometry.coordinates), wkid |-> 4326]

---------------------------------------------------------------------------
(* geocoder.ts *)

\* mutant: waits for the time elapsed instead of the time remaining
rateLimitDelay_Elapsed(t, last) ==
    IF last > 0 /\ t - last < MIN_REQUEST_INTERVAL
    THEN t - last
    ELSE 0

\* waitForRateLimit, lines 19-26: the delay of the setTimeout, 0 when the
\* function does not suspend
rateLimitDelay(t, last) ==
    IF last > 0 /\ t - last < MIN_REQUEST_INTERVAL
    THEN MIN_REQUEST_INTERVAL - (t - last)
    ELSE 0

\* a value returned or thrown by an async function
Returned(v) == [threw |-> FALSE, error |-> [isError |-> TRUE, message |-> <<>>], value |-> <<v>>]

Thrown(message) == [threw |-> TRUE, error |-> [isError |-> TRUE, message |-> message], value |-> <<>>]

Rejected(error) == [threw |-> TRUE, error |-> error, value |-> <<>>]

\* the request geocodeAddress sends
NoRequest ==
    [url |-> "", method |-> "", q |-> <<>>, geometryType |-> "", spatialRel |-> "",
     point |-> <<>>, rings |-> <<>>, outFields |-> ""]

geocodeRequest(query) ==
    [NoRequest EXCEPT !.url = NOMINATIM_BASE_URL, !.method = "GET", !.q = query]

\* mutant: the result count is checked before the status
geocodeAddressResult_CountFirst(resp) ==
    IF resp.rejected THEN Rejected(resp.reason[1])
    ELSE IF Len(resp.body) = 0
    THEN Thrown(<<"Address not found. Please try a different search.">>)
    ELSE IF ~resp.ok
    THEN Thrown(<<"Geocoding failed: ", NumberToString(resp.status)>>)
    ELSE Returned([lat |-> ParseFloat(resp.body[1].lat),
                   lng |-> ParseFloat(resp.body[1].lon),
                   displayName |-> resp.body[1].display_name])

\* geocodeAddress from the response on: what it returns or throws
geocodeAddressResult(resp) ==
    IF resp.rejected THEN Rejected(resp.reason[1])
    ELSE IF ~resp.ok
    THEN Thrown(<<"Geocoding failed: ", NumberToString(resp.status)>>)
    ELSE IF Len(resp.body) = 0
    THEN Thrown(<<"Address not found. Please try a different search.">>)
    ELSE Returned([lat |-> ParseFloat(resp.body[1].lat),
                   lng |-> ParseFloat(resp.body[1].lon),
                   displayName |-> resp.body[1].display_name])

---------------------------------------------------------------------------
(* huc-service.ts *)

\* queryWBD: POST to the query endpoint; returns the body or throws
queryWBD(resp) ==
    IF resp.rejected THEN Rejected(resp.reason[1])
    ELSE IF ~resp.ok
    THEN Thrown(<<"API request failed: ", NumberToString(resp.status)>>)
    ELSE Returned(resp.body)

\* mutant: the point is encoded with latitude as x and longitude as y
pointRequest_Swapped(lat, lng) ==
    [NoRequest EXCEPT !.url = WBD_BASE_URL \o "/query", !.method = "POST",
                      !.geometryType = "esriGeometryPoint",
                      !.spatialRel = "esriSpatialRelIntersects",
                      !.point = <<[x |-> lat, y |-> lng]>>,
                      !.outFields = "huc8,name,states,areaacres,areasqkm"]

pointRequest(lat, lng) ==
    [NoRequest EXCEPT !.url = WBD_BASE_URL \o "/query", !.method = "POST",
                      !.geometryType = "esriGeometryPoint",
                      !.spatialRel = "esriSpatialRelIntersects",
                      !.point = <<[x |-> lng, y |-> lat]>>,
                      !.outFields = "huc8,name,states,areaacres,areasqkm"]

adjacentRequest(geometry) ==
    [NoRequest EXCEPT !.url = WBD_BASE_URL \o "/query", !.method = "POST",
                      !.geometryType = "esriGeometryPolygon",
                      !.spatialRel = "esriSpatialRelTouches",
                      !.rings = toEsriGeometry(geometry).rings,
                      !.outFields = "huc8,name,states"]

NoHUC8Message ==
    <<"No HUC8", " found for this location. Please ensure the location is within the United States.">>

errorText(error) == IF error.isError THEN error.message ELSE <<"Unknown error">>

\* mutant: the catch block wraps every error, its own included
findHUC8ByPointResult_WrapAll(resp) ==
    LET data == queryWBD(resp)
        inner == IF data.threw THEN data
                 ELSE IF ~data.value[1].hasFeatures \/ Len(data.value[1].features) = 0
                 THEN Thrown(NoHUC8Message)
                 ELSE Returned(data.value[1].features[1])
    IN  IF ~inner.threw THEN inner
        ELSE Thrown(<<"HUC8 lookup failed: ">> \o errorText(inner.error))

\* findHUC8ByPoint from the response on
findHUC8ByPointResult(resp) ==
    LET data == queryWBD(resp)
        inner == IF data.threw THEN data
                 ELSE IF ~data.value[1].hasFeatures \/ Len(data.value[1].features) = 0
                 THEN Thrown(NoHUC8Message)
                 ELSE Returned(data.value[1].features[1])
    IN  IF ~inner.threw THEN inner
        ELSE IF inner.error.isError /\ Includes(inner.error.message, "No HUC8")
        THEN inner
        ELSE Thrown(<<"HUC8 lookup failed: ">> \o errorText(inner.error))

\* mutant: an empty result is an error, as it is in findHUC8ByPoint
findAdjacentHUC8sResult_EmptyFails(resp) ==
    LET data == queryWBD(resp)
    IN  IF data.threw
        THEN Thrown(<<"Adjacent HUC8 lookup failed: ">> \o errorText(data.error))
        ELSE IF ~data.value[1].hasFeatures \/ Len(data.value[1].features) = 0
        THEN Thrown(<<"Adjacent HUC8 lookup failed: ", "No HUC8 found">>)
        ELSE Returned(data.value[1].features)

\* findAdjacentHUC8s from the response on
findAdjacentHUC8sResult(resp) ==
    LET data == queryWBD(resp)
    IN  IF data.threw
        THEN Thrown(<<"Adjacent HUC8 lookup failed: ">> \o errorText(data.error))
        ELSE Returned(IF data.value[1].hasFeatures THEN data.value[1].features ELSE <<>>)

---------------------------------------------------------------------------
(* map-controller.ts *)

\* mapLayers are the GeoJSON layers added to the map itself, oldest first;
\* primaryHUCLayer, when set, refers to the one added last
clearAll(m) ==
    [m EXCEPT !.mapLayers = IF m.primaryHUCLayer # <<>>
                            THEN SubSeq(m.mapLayers, 1, Len(m.mapLayers) - 1)
                            ELSE m.mapLayers,
              !.primaryHUCLayer = <<>>,
              !.adjacentHUCLayer = <<>>,
              !.markerLayer = <<>>]

addSearchMarker(m, lat, lng) ==
    [m EXCEPT !.markerLayer = Append(m.markerLayer, [lat |-> lat, lng |-> lng])]

displayPrimaryHUC(m, feature) ==
    [m EXCEPT !.primaryHUCLayer = <<feature>>,
              !.mapLayers = Append(m.mapLayers, feature)]

\* each layer keeps the feature its click handler passes to onClick
displayAdjacentHUCs(m, features) ==
    [m EXCEPT !.adjacentHUCLayer = m.adjacentHUCLayer \o features]

---------------------------------------------------------------------------
(* HUC8App: DOM helpers *)

showLoading(d) ==
    [d EXCEPT !.addressInputDisabled = TRUE, !.searchButtonDisabled = TRUE,
              !.buttonTextHidden = TRUE, !.spinnerHidden = FALSE]

hideLoading(d) ==
    [d EXCEPT !.addressInputDisabled = FALSE, !.searchButtonDisabled = FALSE,
              !.buttonTextHidden = FALSE, !.spinnerHidden = TRUE]

showError(d, message) ==
    [d EXCEPT !.errorText = message, !.errorHidden = FALSE]

hideError(d) == [d EXCEPT !.errorHidden = TRUE]

updateInfoPanel(d, props) ==
    [d EXCEPT !.hucCodeEl = props.huc8, !.hucNameEl = props.name]

\* the list holds the features array its click handlers close over; button k
\* carries data-huc = features[k].huc8
updateAdjacentList(d, features) == [d EXCEPT !.adjacentList = features]

\* features.find((f) => f.properties.huc8 === hucCode): <<>> when undefined
findByCode(features, hucCode) ==
    LET hits == SelectSeq(features, LAMBDA f : f.huc8 = hucCode)
    IN  IF hits = <<>> THEN <<>> ELSE <<hits[1]>>

\* mutant: the catch block shows its fallback whatever was thrown
catchMessage_Generic(error, fallback) == fallback

\* the message a catch block shows
catchMessage(error, fallback) == IF error.isError THEN error.message ELSE fallback

---------------------------------------------------------------------------
(* State *)

Max(a, b) == IF a >= b THEN a ELSE b

\* what the page shows as selected: the current feature, the primary and
\* neighbor layers, the search marker and the neighbor list
SelectionOf(c, m, d) ==
    [currentHUC8 |-> c, primaryHUCLayer |-> m.primaryHUCLayer,
     adjacentHUCLayer |-> m.adjacentHUCLayer, markerLayer |-> m.markerLayer,
     adjacentList |-> d.adjacentList]

Selection == SelectionOf(currentHUC8, mapc, dom)

\* An invocation in flight.  kind: "search" (handleSearch), "select"
\* (selectHUC8), "direct" (geocodeAddress called by a test).  pc is the await
\* it is suspended at, args the arguments of the service call it awaits.  calls, first, floor and acquiredAt are history: the
\* requests it has sent, whether its geocodeAddress call is the first one
\* since the limiter was new or reset, the latest acquisition of a
\* geocodeAddress call that had settled when this one started, and the time
\* of its own acquisition.  before is history too: the selection when the
\* invocation started, <<>> where hist.snapshots is off; and so are repeat:
\* geocodeAddress had been called with the same query before, and overtaken:
\* an invocation started after this one has redrawn the selection (recorded
\* where hist.order is on).
NewInvocation(kind) ==
    [kind |-> kind, pc |-> "", query |-> <<>>, timerAt |-> 0, location |-> <<>>,
     feature |-> <<>>, args |-> <<>>, request |-> NoRequest, calls |-> <<>>,
     first |-> FALSE, floor |-> 0, acquiredAt |-> 0, repeat |-> FALSE,
     overtaken |-> FALSE,
     before |-> IF hist.snapshots THEN <<Selection>> ELSE <<>>]

\* the page as loaded: the constructor changes no element; the markup shows
\* the button text, hides the spinner, the error and the results panel.
\* snapshots turns on the history of the selection each invocation started
\* from, order the history of overtaken invocations; they change nothing the
\* program does.
InitPage(snapshots, order) ==
    /\ now = StartTime
    /\ lastRequestTime = 0
    /\ inflight = <<>>
    /\ dom = [addressInputDisabled |-> FALSE, searchButtonDisabled |-> FALSE,
              buttonTextHidden |-> FALSE, spinnerHidden |-> TRUE,
              errorText |-> <<>>, errorHidden |-> TRUE,
              resultsPanelHidden |-> TRUE,
              hucCodeEl |-> "", hucNameEl |-> "", adjacentList |-> <<>>]
    /\ mapc = [primaryHUCLayer |-> <<>>, mapLayers |-> <<>>,
               adjacentHUCLayer |-> <<>>, markerLayer |-> <<>>]
    /\ currentHUC8 = <<>>
    /\ hist = [prevAcquire |-> 0, lastAcquire |-> 0, settledAcquire |-> 0,
               startedSinceReset |-> FALSE, starts |-> 0, adjacent |-> <<>>,
               outcome |-> <<>>, rejected |-> FALSE, searched |-> {},
               snapshots |-> snapshots, order |-> order]

Init == InitPage(FALSE, FALSE)

InitSnapshots == InitPage(TRUE, FALSE)

\* the page with the history of overtaken invocations
InitOrder == InitPage(FALSE, TRUE)

RemoveAt(seq, i) == SubSeq(seq, 1, i - 1) \o SubSeq(seq, i + 1, Len(seq))

\* history: an acquisition returned at time t
Acquired(h, t) == [h EXCEPT !.prevAcquire = h.lastAcquire, !.lastAcquire = t]

\* history: a service function called by a test settled with this result
Outcome(h, call, resp, r) ==
    [h EXCEPT !.outcome = <<[call |-> call, response |-> resp, result |-> r]>>]

\* history: invocation i leaves after redrawing the selection; the invocations
\* started before it and still in flight have been overtaken
Overtake(i) ==
    [j \in 1..(Len(inflight) - 1) |->
        IF hist.order /\ j < i
        THEN [inflight[j] EXCEPT !.overtaken = TRUE]
        ELSE RemoveAt(inflight, i)[j]]

\* history: an invocation started
Started(h) == [h EXCEPT !.starts = @ + 1]

\* the model admits another invocation
CanStart == Len(inflight) < MaxInFlight /\ hist.starts < MaxStarts

---------------------------------------------------------------------------
(* geocodeAddress up to its first suspension: waitForRateLimit either       *)
(* suspends on the timer or records the time, and then the request is sent *)

geocodeAddressStart(p, query) ==
    LET delay == rateLimitDelay(now, lastRequestTime)
        q == [p EXCEPT !.query = query, !.args = <<query>>,
                       !.repeat = query \in hist.searched,
                       !.floor = hist.settledAcquire,
                       !.first = ~hist.startedSinceReset]
        h == [Started(hist) EXCEPT !.startedSinceReset = TRUE,
                                   !.searched = @ \cup {query}]
    IN  IF delay > 0
        THEN /\ inflight' = Append(inflight, [q EXCEPT !.pc = "rateLimitWait",
                                                       !.timerAt = now + delay])
             /\ lastRequestTime' = lastRequestTime
             /\ hist' = h
        ELSE /\ inflight' = Append(inflight, [q EXCEPT !.pc = "geocode",
                                                       !.request = geocodeRequest(query),
                                                       !.calls = <<"geocode">>,
                                                       !.acquiredAt = now])
             /\ lastRequestTime' = now
             /\ hist' = Acquired(h, now)

\* the setTimeout of waitForRateLimit fires: it records the time and
\* geocodeAddress sends the request
RateLimitTimer(i) ==
    /\ inflight[i].pc = "rateLimitWait"
    /\ now >= inflight[i].timerAt
    /\ lastRequestTime' = now
    /\ inflight' = [inflight EXCEPT ![i] =
                       [inflight[i] EXCEPT
                           !.pc = "geocode", !.timerAt = 0,
                           !.request = geocodeRequest(inflight[i].query),
                           !.calls = <<"geocode">>,
                           !.acquiredAt = now]]
    /\ hist' = Acquired(hist, now)
    /\ UNCHANGED <<now, dom, mapc, currentHUC8>>

---------------------------------------------------------------------------
(* HUC8App *)

\* mutant: the empty-query check is missing
handleSearch_NoValidation(input) ==
    /\ ~dom.searchButtonDisabled
    /\ CanStart
    /\ dom' = hideError(showLoading(dom))
    /\ geocodeAddressStart(NewInvocation("search"), Trim(input))
    /\ UNCHANGED <<now, mapc, currentHUC8>>

\* mutant: a query submitted before is not geocoded and looked up again; its
\* pipeline starts at the adjacency lookup of the feature already selected
handleSearch_Reuse(input) ==
    /\ ~dom.searchButtonDisabled
    /\ LET query == Trim(input)
       IN  IF query = <<>>
           THEN /\ dom' = showError(dom, <<"Please enter an address or zip code.">>)
                /\ UNCHANGED <<now, lastRequestTime, inflight, mapc, currentHUC8, hist>>
           ELSE /\ CanStart
                /\ dom' = hideError(showLoading(dom))
                /\ UNCHANGED <<now, mapc, currentHUC8>>
                /\ IF query \in hist.searched /\ currentHUC8 # <<>>
                   THEN /\ inflight' = Append(inflight,
                                [NewInvocation("search") EXCEPT
                                    !.query = query, !.repeat = TRUE,
                                    !.pc = "adjacent", !.feature = currentHUC8,
                                    !.location = <<[lat |-> 0, lng |-> 0,
                                                    displayName |-> "Washington"]>>,
                                    !.args = <<currentHUC8[1].geometry>>,
                                    !.request = adjacentRequest(currentHUC8[1].geometry),
                                    !.calls = <<"adjacent">>])
                        /\ hist' = Started(hist)
                        /\ UNCHANGED lastRequestTime
                   ELSE geocodeAddressStart(NewInvocation("search"), query)

\* the submit event of the search form reaches handleSearch only while the
\* submit button is enabled; input is the value of the address input
handleSearch(input) ==
    /\ ~dom.searchButtonDisabled
    /\ LET query == Trim(input)
       IN  IF query = <<>>
           THEN /\ dom' = showError(dom, <<"Please enter an address or zip code.">>)
                /\ UNCHANGED <<now, lastRequestTime, inflight, mapc, currentHUC8, hist>>
           ELSE /\ CanStart
                /\ dom' = hideError(showLoading(dom))
                /\ geocodeAddressStart(NewInvocation("search"), query)
                /\ UNCHANGED <<now, mapc, currentHUC8>>

\* selectHUC8 up to its await
selectHUC8(feature) ==
    /\ CanStart
    /\ dom' = showLoading(dom)
    /\ inflight' = Append(inflight,
                      [NewInvocation("select") EXCEPT
                          !.pc = "adjacent", !.feature = <<feature>>,
                          !.args = <<feature.geometry>>,
                          !.request = adjacentRequest(feature.geometry),
                          !.calls = <<"adjacent">>])
    /\ hist' = Started(hist)
    /\ UNCHANGED <<now, lastRequestTime, mapc, currentHUC8>>

\* a click on the k-th neighbor layer of the map
ClickMapLayer(k) ==
    /\ k \in 1..Len(mapc.adjacentHUCLayer)
    /\ selectHUC8(mapc.adjacentHUCLayer[k])

\* mutant: every button of the neighbor list selects the first feature of the
\* list
ClickListButton_First(k) ==
    /\ k \in 1..Len(dom.adjacentList)
    /\ selectHUC8(dom.adjacentList[1])

\* a click on the k-th button of the neighbor list
ClickListButton(k) ==
    /\ k \in 1..Len(dom.adjacentList)
    /\ LET hucCode == dom.adjacentList[k].huc8
           feature == findByCode(dom.adjacentList, hucCode)
       IN  /\ feature # <<>>
           /\ selectHUC8(feature[1])

displayResults(location, huc8Feature, adjacentFeatures) ==
    /\ mapc' = displayAdjacentHUCs(
                  displayPrimaryHUC(
                     addSearchMarker(clearAll(mapc), location.lat, location.lng),
                     huc8Feature),
                  adjacentFeatures)
    /\ dom' = hideLoading(
                 [updateAdjacentList(updateInfoPanel(dom, huc8Feature), adjacentFeatures)
                     EXCEPT !.resultsPanelHidden = FALSE])
    /\ currentHUC8' = <<huc8Feature>>

\* mutant: the redraw of selectHUC8 updates the map and the neighbor list but
\* leaves the info panel and currentHUC8 as they were
redrawSelection_Partial(feature, adjacentFeatures) ==
    /\ mapc' = displayAdjacentHUCs(displayPrimaryHUC(clearAll(mapc), feature),
                                   adjacentFeatures)
    /\ dom' = hideLoading(updateAdjacentList(dom, adjacentFeatures))
    /\ UNCHANGED currentHUC8

\* mutant: the redraw of selectHUC8 leaves the search marker on the map
redrawSelection_KeepsMarker(feature, adjacentFeatures) ==
    /\ mapc' = [displayAdjacentHUCs(displayPrimaryHUC(clearAll(mapc), feature),
                                    adjacentFeatures)
                   EXCEPT !.markerLayer = mapc.markerLayer]
    /\ dom' = hideLoading(
                 updateAdjacentList(updateInfoPanel(dom, feature), adjacentFeatures))
    /\ currentHUC8' = <<feature>>

\* selectHUC8 after its await succeeded
redrawSelection(feature, adjacentFeatures) ==
    /\ mapc' = displayAdjacentHUCs(displayPrimaryHUC(clearAll(mapc), feature),
                                   adjacentFeatures)
    /\ dom' = hideLoading(
                 updateAdjacentList(updateInfoPanel(dom, feature), adjacentFeatures))
    /\ currentHUC8' = <<feature>>

\* mutant: hideLoading is not in a finally block, and a failure skips it
catchFinally_NoFinally(h, error, fallback) ==
    /\ dom' = showError(dom, catchMessage(error, fallback))
    /\ hist' = h
    /\ UNCHANGED <<mapc, currentHUC8>>

\* mutant: try and finally without the catch block: the error leaves the
\* async method, whose promise rejects
catchFinally_Rethrow(h, error, fallback) ==
    /\ dom' = hideLoading(dom)
    /\ hist' = [h EXCEPT !.rejected = TRUE]
    /\ UNCHANGED <<mapc, currentHUC8>>

\* the catch and finally blocks of handleSearch and selectHUC8: the error is
\* shown, nothing is thrown again and the promise of the method fulfils;
\* h is the history so far, hist.rejected tells that such a promise rejected
catchFinally(h, error, fallback) ==
    /\ dom' = hideLoading(showError(dom, catchMessage(error, fallback)))
    /\ hist' = h
    /\ UNCHANGED <<mapc, currentHUC8>>

\* mutant: a failed geocoding request is sent again
GeocodeResponse_Retry(i, resp) ==
    LET p == inflight[i]
        r == geocodeAddressResult(resp)
    IN  /\ p.pc = "geocode"
        /\ hist' = [hist EXCEPT !.settledAcquire = Max(@, p.acquiredAt)]
        /\ UNCHANGED <<now, lastRequestTime, dom, mapc, currentHUC8>>
        /\ IF p.kind = "direct"
           THEN inflight' = RemoveAt(inflight, i)
           ELSE IF r.threw
           THEN inflight' = [inflight EXCEPT ![i] =
                               [p EXCEPT !.calls = Append(p.calls, "geocode")]]
           ELSE inflight' = [inflight EXCEPT ![i] =
                               [p EXCEPT !.pc = "point", !.location = r.value,
                                         !.first = FALSE,
                                         !.floor = 0, !.acquiredAt = 0,
                                         !.args = <<r.value[1].lat, r.value[1].lng>>,
                                         !.request = pointRequest(r.value[1].lat,
                                                                  r.value[1].lng),
                                         !.calls = Append(p.calls, "point")]]

\* mutant: a request that fails gives its slot back; the timestamp counts only
\* for a request that succeeded
GeocodeResponse_Release(i, resp) ==
    LET p == inflight[i]
        r == geocodeAddressResult(resp)
        h == [hist EXCEPT !.settledAcquire = Max(@, p.acquiredAt)]
    IN  /\ p.pc = "geocode"
        /\ UNCHANGED now
        /\ lastRequestTime' = IF r.threw THEN 0 ELSE lastRequestTime
        /\ IF p.kind = "direct"
           THEN /\ inflight' = RemoveAt(inflight, i)
                /\ hist' = Outcome(h, "geocodeAddress", resp, r)
                /\ UNCHANGED <<dom, mapc, currentHUC8>>
           ELSE IF r.threw
           THEN /\ inflight' = RemoveAt(inflight, i)
                /\ catchFinally(h, r.error, <<"An unexpected error occurred.">>)
           ELSE /\ hist' = h
                /\ inflight' = [inflight EXCEPT ![i] =
                                  [p EXCEPT !.pc = "point", !.location = r.value,
                                            !.first = FALSE,
                                            !.floor = 0, !.acquiredAt = 0,
                                         !.args = <<r.value[1].lat, r.value[1].lng>>,
                                            !.request = pointRequest(r.value[1].lat,
                                                                     r.value[1].lng),
                                            !.calls = Append(p.calls, "point")]]
                /\ UNCHANGED <<dom, mapc, currentHUC8>>

\* the geocoding response arrives
GeocodeResponse(i, resp) ==
    LET p == inflight[i]
        r == geocodeAddressResult(resp)
        h == [hist EXCEPT !.settledAcquire = Max(@, p.acquiredAt)]
    IN  /\ p.pc = "geocode"
        /\ UNCHANGED <<now, lastRequestTime>>
        /\ IF p.kind = "direct"
           THEN /\ inflight' = RemoveAt(inflight, i)
                /\ hist' = Outcome(h, "geocodeAddress", resp, r)
                /\ UNCHANGED <<dom, mapc, currentHUC8>>
           ELSE IF r.threw
           THEN /\ inflight' = RemoveAt(inflight, i)
                /\ catchFinally(h, r.error, <<"An unexpected error occurred.">>)
           ELSE /\ hist' = h
                /\ inflight' = [inflight EXCEPT ![i] =
                                  [p EXCEPT !.pc = "point", !.location = r.value,
                                            !.first = FALSE,
                                            !.floor = 0, !.acquiredAt = 0,
                                         !.args = <<r.value[1].lat, r.value[1].lng>>,
                                            !.request = pointRequest(r.value[1].lat,
                                                                     r.value[1].lng),
                                            !.calls = Append(p.calls, "point")]]
                /\ UNCHANGED <<dom, mapc, currentHUC8>>

\* the response to the point lookup arrives
PointResponse(i, resp) ==
    LET p == inflight[i]
        r == findHUC8ByPointResult(resp)
    IN  /\ p.pc = "point"
        /\ UNCHANGED <<now, lastRequestTime>>
        /\ IF p.kind = "direct"
           THEN /\ inflight' = RemoveAt(inflight, i)
                /\ hist' = Outcome(hist, "findHUC8ByPoint", resp, r)
                /\ UNCHANGED <<dom, mapc, currentHUC8>>
           ELSE IF r.threw
           THEN /\ inflight' = RemoveAt(inflight, i)
                /\ catchFinally(hist, r.error, <<"An unexpected error occurred.">>)
           ELSE /\ UNCHANGED hist
                /\ inflight' = [inflight EXCEPT ![i] =
                                  [p EXCEPT !.pc = "adjacent", !.feature = r.value,
                                            !.args = <<r.value[1].geometry>>,
                                            !.request = adjacentRequest(r.value[1].geometry),
                                            !.calls = Append(p.calls, "adjacent")]]
                /\ UNCHANGED <<dom, mapc, currentHUC8>>

\* mutant: a generation check; the response of an invocation that a later one
\* has overtaken is dropped instead of redrawn
AdjacentResponse_Generation(i, resp) ==
    LET p == inflight[i]
        r == findAdjacentHUC8sResult(resp)
    IN  /\ p.pc = "adjacent"
        /\ UNCHANGED <<now, lastRequestTime>>
        /\ IF p.kind = "direct"
           THEN /\ inflight' = RemoveAt(inflight, i)
                /\ hist' = Outcome(hist, "findAdjacentHUC8s", resp, r)
                /\ UNCHANGED <<dom, mapc, currentHUC8>>
           ELSE IF r.threw
           THEN /\ inflight' = RemoveAt(inflight, i)
                /\ catchFinally(hist, r.error,
                                IF p.kind = "search"
                                THEN <<"An unexpected error occurred.">>
                                ELSE <<"Failed to load watershed.">>)
           ELSE /\ inflight' = Overtake(i)
                /\ hist' = [hist EXCEPT !.adjacent =
                               <<[source |-> p.feature[1],
                                  returned |-> IF resp.body.hasFeatures
                                               THEN resp.body.features ELSE <<>>,
                                  output |-> r.value[1],
                                  overtaken |-> p.overtaken,
                                  kind |-> p.kind]>>]
                /\ IF p.overtaken
                   THEN /\ dom' = hideLoading(dom)
                        /\ UNCHANGED <<mapc, currentHUC8>>
                   ELSE IF p.kind = "search"
                   THEN displayResults(p.location[1], p.feature[1], r.value[1])
                   ELSE redrawSelection(p.feature[1], r.value[1])

\* the response to the adjacency lookup arrives: the rest of handleSearch or
\* of selectHUC8
AdjacentResponse(i, resp) ==
    LET p == inflight[i]
        r == findAdjacentHUC8sResult(resp)
    IN  /\ p.pc = "adjacent"
        /\ UNCHANGED <<now, lastRequestTime>>
        /\ IF p.kind = "direct"
           THEN /\ inflight' = RemoveAt(inflight, i)
                /\ hist' = Outcome(hist, "findAdjacentHUC8s", resp, r)
                /\ UNCHANGED <<dom, mapc, currentHUC8>>
           ELSE IF r.threw
           THEN /\ inflight' = RemoveAt(inflight, i)
                /\ catchFinally(hist, r.error,
                                IF p.kind = "search"
                                THEN <<"An unexpected error occurred.">>
                                ELSE <<"Failed to load watershed.">>)
           ELSE /\ inflight' = Overtake(i)
                /\ hist' = [hist EXCEPT !.adjacent =
                               <<[source |-> p.feature[1],
                                  returned |-> IF resp.body.hasFeatures
                                               THEN resp.body.features ELSE <<>>,
                                  output |-> r.value[1],
                                  overtaken |-> p.overtaken,
                                  kind |-> p.kind]>>]
                /\ IF p.kind = "search"
                   THEN displayResults(p.location[1], p.feature[1], r.value[1])
                   ELSE redrawSelection(p.feature[1], r.value[1])

\* time passes
Tick ==
    /\ now + TickDelta <= MaxNow
    /\ now' = now + TickDelta
    /\ UNCHANGED <<lastRequestTime, inflight, dom, mapc, currentHUC8, hist>>

Next ==
    \/ \E input \in QueryInputs : handleSearch(input)
    \/ \E k \in 1..Len(mapc.adjacentHUCLayer) : ClickMapLayer(k)
    \/ \E k \in 1..Len(dom.adjacentList) : ClickListButton(k)
    \/ \E i \in 1..Len(inflight) : RateLimitTimer(i)
    \/ \E i \in 1..Len(inflight) : \E resp \in NominatimResponses : GeocodeResponse(i, resp)
    \/ \E i \in 1..Len(inflight) : \E resp \in WBDResponses : PointResponse(i, resp)
    \/ \E i \in 1..Len(inflight) : \E resp \in WBDResponses : AdjacentResponse(i, resp)
    \/ Tick

Spec == Init /\ [][Next]_vars

\* the same program, with the selection history recorded
SpecSnapshots == InitSnapshots /\ [][Next]_vars

\* the same program, with the overtaken invocations recorded
SpecOrder == InitOrder /\ [][Next]_vars

---------------------------------------------------------------------------
(* The geocoder under its test file: beforeEach resets the limiter, and a  *)
(* test awaits each geocodeAddress call before it makes the next           *)

\* mutant: the reset leaves the stored timestamp in place
resetRateLimiter_Keeps ==
    /\ inflight = <<>>
    /\ lastRequestTime' = lastRequestTime
    /\ hist' = [hist EXCEPT !.startedSinceReset = FALSE, !.settledAcquire = 0]
    /\ UNCHANGED <<now, inflight, dom, mapc, currentHUC8>>

resetRateLimiter ==
    /\ inflight = <<>>
    /\ lastRequestTime' = 0
    /\ hist' = [hist EXCEPT !.startedSinceReset = FALSE, !.settledAcquire = 0]
    /\ UNCHANGED <<now, inflight, dom, mapc, currentHUC8>>

TestGeocodeAddress(query) ==
    /\ inflight = <<>>
    /\ hist.starts < MaxStarts
    /\ geocodeAddressStart(NewInvocation("direct"), query)
    /\ UNCHANGED <<now, dom, mapc, currentHUC8>>

\* the coordinates the tests of findHUC8ByPoint pass, in whole degrees
TestPoints == { <<38, -77>>, <<51, 0>> }

\* a test awaits findHUC8ByPoint(lat, lng)
TestFindHUC8ByPoint(lat, lng) ==
    /\ inflight = <<>>
    /\ hist.starts < MaxStarts
    /\ inflight' = <<[NewInvocation("direct") EXCEPT
                         !.pc = "point", !.args = <<lat, lng>>,
                         !.request = pointRequest(lat, lng),
                         !.calls = <<"point">>]>>
    /\ hist' = Started(hist)
    /\ UNCHANGED <<now, lastRequestTime, dom, mapc, currentHUC8>>

\* a test awaits findAdjacentHUC8s on the geometry of a feature
TestFindAdjacentHUC8s(feature) ==
    /\ inflight = <<>>
    /\ hist.starts < MaxStarts
    /\ inflight' = <<[NewInvocation("direct") EXCEPT
                         !.pc = "adjacent", !.feature = <<feature>>,
                         !.args = <<feature.geometry>>,
                         !.request = adjacentRequest(feature.geometry),
                         !.calls = <<"adjacent">>]>>
    /\ hist' = Started(hist)
    /\ UNCHANGED <<now, lastRequestTime, dom, mapc, currentHUC8>>

NextTest ==
    \/ resetRateLimiter
    \/ \E query \in {Trim(q) : q \in QueryInputs} \ {<<>>} : TestGeocodeAddress(query)
    \/ \E pt \in TestPoints : TestFindHUC8ByPoint(pt[1], pt[2])
    \/ \E feature \in HUC8Features : TestFindAdjacentHUC8s(feature)
    \/ \E i \in 1..Len(inflight) : RateLimitTimer(i)
    \/ \E i \in 1..Len(inflight) : \E resp \in NominatimResponses : GeocodeResponse(i, resp)
    \/ \E i \in 1..Len(inflight) : \E resp \in WBDResponses : PointResponse(i, resp)
    \/ \E i \in 1..Len(inflight) : \E resp \in WBDResponses : AdjacentResponse(i, resp)
    \/ Tick

SpecTest == Init /\ [][NextTest]_vars

\* The tests of MapController call its methods directly, in any order; the
\* last call is kept in hist.outcome.
Called(h, call) == [h EXCEPT !.outcome = <<[call |-> call]>>]

TestClearAll ==
    /\ mapc' = clearAll(mapc)
    /\ hist' = Called(hist, "clearAll")
    /\ UNCHANGED <<now, lastRequestTime, inflight, dom, currentHUC8>>

TestAddSearchMarker(lat, lng) ==
    /\ Len(mapc.markerLayer) < MaxLayers
    /\ mapc' = addSearchMarker(mapc, lat, lng)
    /\ hist' = Called(hist, "addSearchMarker")
    /\ UNCHANGED <<now, lastRequestTime, inflight, dom, currentHUC8>>

TestDisplayPrimaryHUC(feature) ==
    /\ Len(mapc.mapLayers) < MaxLayers
    /\ mapc' = displayPrimaryHUC(mapc, feature)
    /\ hist' = Called(hist, "displayPrimaryHUC")
    /\ UNCHANGED <<now, lastRequestTime, inflight, dom, currentHUC8>>

TestDisplayAdjacentHUCs(features) ==
    /\ Len(mapc.adjacentHUCLayer) + Len(features) <= MaxLayers
    /\ mapc' = displayAdjacentHUCs(mapc, features)
    /\ hist' = Called(hist, "displayAdjacentHUCs")
    /\ UNCHANGED <<now, lastRequestTime, inflight, dom, currentHUC8>>

NextMap ==
    \/ TestClearAll
    \/ \E pt \in TestPoints : TestAddSearchMarker(pt[1], pt[2])
    \/ \E feature \in HUC8Features : TestDisplayPrimaryHUC(feature)
    \/ \E features \in FeatureLists : TestDisplayAdjacentHUCs(features)

SpecMap == Init /\ [][NextMap]_vars

---------------------------------------------------------------------------
(* Claims *)

Busy(d) ==
    d.addressInputDisabled /\ d.searchButtonDisabled /\ ~d.spinnerHidden

Ready(d) ==
    ~d.addressInputDisabled /\ ~d.searchButtonDisabled /\ d.spinnerHidden
      /\ ~d.buttonTextHidden

\* C1: at most one lookup pipeline (a search or a neighbor re-selection) is
\* in flight at any time.
C1_SingleInFlight == Len(inflight) <= 1

\* C2: while a pipeline has started and not settled, the search input and the
\* submit button are disabled and the busy indicator is shown.
C2_BusyWhileInFlight == inflight # <<>> => Busy(dom)

\* C3: every return of waitForRateLimit is at least MIN_REQUEST_INTERVAL after
\* the previous return, across all callers.
C3_AcquireSpacing ==
    hist.prevAcquire > 0 => hist.lastAcquire - hist.prevAcquire >= MIN_REQUEST_INTERVAL

\* C4: a geocodeAddress call started after an earlier call has settled sends
\* its request at least MIN_REQUEST_INTERVAL after that call's acquisition.
C4_SequentialSpacing ==
    \A i \in 1..Len(inflight) :
        (inflight[i].pc = "geocode" /\ inflight[i].floor > 0)
            => inflight[i].acquiredAt >= inflight[i].floor + MIN_REQUEST_INTERVAL

\* C4 witness: a second call, started after the first settled, has waited out
\* the interval and sent its request.
C4_Witness ==
    \E i \in 1..Len(inflight) :
        /\ inflight[i].pc = "geocode"
        /\ inflight[i].floor > 0
        /\ inflight[i].acquiredAt = inflight[i].floor + MIN_REQUEST_INTERVAL

\* C5: the first acquisition of a process, and the first one after
\* resetRateLimiter, never waits, however recent the acquisition before it.
C5_FirstNeverWaits ==
    \A i \in 1..Len(inflight) : inflight[i].first => inflight[i].pc # "rateLimitWait"

\* C5 witness: the first call after a reset has acquired at once, less than
\* the interval after the acquisition before the reset.
C5_Witness ==
    \E i \in 1..Len(inflight) :
        /\ inflight[i].first
        /\ inflight[i].pc = "geocode"
        /\ hist.prevAcquire > 0
        /\ inflight[i].acquiredAt - hist.prevAcquire < MIN_REQUEST_INTERVAL

\* C6: the adjacency resolver returns the provider's features, in order,
\* without any feature whose code is the source feature's code.
C6_SourceFiltered ==
    hist.adjacent # <<>> =>
        LET a == hist.adjacent[1]
        IN  a.output = SelectSeq(a.returned, LAMBDA f : f.huc8 # a.source.huc8)

\* C7: every adjacency query uses the relation esriSpatialRelIntersects with
\* geometry type polygon, at the endpoint of the point lookup.
C7_AdjacencyIntersects ==
    \A i \in 1..Len(inflight) :
        inflight[i].pc = "adjacent" =>
            /\ inflight[i].request.spatialRel = "esriSpatialRelIntersects"
            /\ inflight[i].request.geometryType = "esriGeometryPolygon"
            /\ inflight[i].request.url = pointRequest(0, 0).url

\* C8: a search pipeline sends its requests in the order geocode, point
\* lookup, adjacency lookup, one of each at most, each only after the
\* previous one succeeded.
C8_StepOrder ==
    \A i \in 1..Len(inflight) :
        LET p == inflight[i]
        IN  p.kind = "search" =>
              /\ p.pc = "rateLimitWait" => p.calls = <<>>
              /\ p.pc = "geocode" => p.calls = <<"geocode">> /\ p.location = <<>>
              /\ p.pc = "point" =>
                    /\ p.calls = <<"geocode", "point">>
                    /\ p.location # <<>> /\ p.feature = <<>>
              /\ p.pc = "adjacent" =>
                    /\ p.calls = <<"geocode", "point", "adjacent">>
                    /\ p.location # <<>> /\ p.feature # <<>>

\* C8 witness: a search pipeline has sent its adjacency request.
C8_Witness ==
    \E i \in 1..Len(inflight) :
        inflight[i].kind = "search" /\ inflight[i].pc = "adjacent"

\* C9: a submission whose query is empty or whitespace-only starts no
\* pipeline: no acquisition, no request, no busy state, the selection
\* unchanged, and the message asking for an address shown.
C9_BlankQueryRejected ==
    [][\A input \in QueryInputs :
          (Trim(input) = <<>> /\ handleSearch(input)) =>
              /\ UNCHANGED <<lastRequestTime, inflight, mapc, currentHUC8, hist>>
              /\ dom' = [dom EXCEPT
                            !.errorText = <<"Please enter an address or zip code.">>,
                            !.errorHidden = FALSE]]_vars

\* C9 witness: the validation message is shown over an earlier result.
C9_Witness ==
    /\ dom.errorText = <<"Please enter an address or zip code.">>
    /\ ~dom.errorHidden
    /\ currentHUC8 # <<>>
    /\ inflight = <<>>

\* C10: a pipeline that settles, in success or in failure, leaves the busy
\* indicator hidden and the controls enabled, and they are so whenever no
\* pipeline is in flight.
C10_LoadingCleared ==
    /\ [](inflight = <<>> => Ready(dom))
    /\ [][Len(inflight') < Len(inflight) => Ready(dom')]_vars

\* C10 witness: a pipeline has failed and settled, the error is shown and the
\* controls are enabled.
C10_Witness ==
    /\ hist.starts > 0
    /\ inflight = <<>>
    /\ ~dom.errorHidden
    /\ dom.errorText # <<"Please enter an address or zip code.">>
    /\ Ready(dom)

\* the error element shows exactly this text
Shows(d, message) == ~d.errorHidden /\ d.errorText = message

\* what a catch block is expected to show for a thrown value
Expected(error, fallback) == IF error.isError THEN error.message ELSE fallback

\* C11: when a step of a pipeline fails, the error element shows exactly the
\* message of the value the step threw, and the fallback text of the catch
\* block only when that value is not an Error.  (A failing step settles its
\* invocation, which leaves inflight.)
C11_ShownIsThrown ==
    [][\A i \in 1..Len(inflight) :
          LET p == inflight[i]
          IN  (Len(inflight') < Len(inflight) /\ inflight' = RemoveAt(inflight, i)) =>
              /\ (p.pc = "geocode" /\ p.kind = "search") =>
                    \A resp \in NominatimResponses :
                       LET r == geocodeAddressResult(resp)
                       IN  (r.threw /\ GeocodeResponse(i, resp))
                              => Shows(dom', Expected(r.error,
                                                      <<"An unexpected error occurred.">>))
              /\ (p.pc = "point" /\ p.kind = "search") =>
                    \A resp \in WBDResponses :
                       LET r == findHUC8ByPointResult(resp)
                       IN  (r.threw /\ PointResponse(i, resp))
                              => Shows(dom', Expected(r.error,
                                                      <<"An unexpected error occurred.">>))
              /\ (p.pc = "adjacent" /\ p.kind # "direct") =>
                    \A resp \in WBDResponses :
                       LET r == findAdjacentHUC8sResult(resp)
                       IN  (r.threw /\ AdjacentResponse(i, resp))
                              => Shows(dom', Expected(r.error,
                                                      IF p.kind = "search"
                                                      THEN <<"An unexpected error occurred.">>
                                                      ELSE <<"Failed to load watershed.">>))]_vars

\* C11 witness: a point lookup answered with status 500 has failed its
\* search, and the wrapped message of the lookup is shown.
C11_Witness ==
    /\ inflight = <<>>
    /\ Shows(dom, <<"HUC8 lookup failed: ", "API request failed: ", "500">>)

\* invocation i settles in failure (a failing step takes the invocation out
\* of inflight: tested first, as the cheapest conjunct of the three actions)
Fails(i) ==
    LET p == inflight[i]
    IN  /\ Len(inflight') < Len(inflight)
        /\ inflight' = RemoveAt(inflight, i)
        /\ \/ /\ p.pc = "geocode" /\ p.kind = "search"
              /\ \E resp \in NominatimResponses :
                    geocodeAddressResult(resp).threw /\ GeocodeResponse(i, resp)
           \/ /\ p.pc = "point" /\ p.kind = "search"
              /\ \E resp \in WBDResponses :
                    findHUC8ByPointResult(resp).threw /\ PointResponse(i, resp)
           \/ /\ p.pc = "adjacent" /\ p.kind # "direct"
              /\ \E resp \in WBDResponses :
                    findAdjacentHUC8sResult(resp).threw /\ AdjacentResponse(i, resp)

\* C12: a pipeline that fails leaves the selection (currentHUC8, primary and
\* neighbor layers, search marker, neighbor list) as it was before the
\* pipeline started.
C12_FailureKeepsSelection ==
    [][\A i \in 1..Len(inflight) :
          (inflight[i].before # <<>> /\ Fails(i))
             => SelectionOf(currentHUC8', mapc', dom') = inflight[i].before[1]]_vars

\* C13: selecting a displayed neighbor runs only the adjacency resolver,
\* called with the feature's geometry and code: no acquisition, no geocoding
\* request, no point lookup; on success the feature is the new primary with
\* the resolved neighbors.
C13_SelectRunsAdjacencyOnly ==
    /\ [](\A i \in 1..Len(inflight) :
            LET p == inflight[i]
            IN  p.kind = "select" =>
                  /\ p.pc = "adjacent"
                  /\ p.calls = <<"adjacent">>
                  /\ p.acquiredAt = 0
                  /\ p.request = adjacentRequest(p.feature[1].geometry)
                  /\ p.args = <<p.feature[1].geometry, p.feature[1].huc8>>)
    /\ [][\A i \in 1..Len(inflight) : \A resp \in WBDResponses :
            (/\ inflight[i].kind = "select"
             /\ ~findAdjacentHUC8sResult(resp).threw
             /\ AdjacentResponse(i, resp))
              => /\ currentHUC8' = inflight[i].feature
                 /\ mapc'.primaryHUCLayer = inflight[i].feature
                 /\ mapc'.adjacentHUCLayer = findAdjacentHUC8sResult(resp).value[1]
                 /\ dom'.adjacentList = findAdjacentHUC8sResult(resp).value[1]]_vars

\* C14: a search that succeeds selects the first feature of the point
\* lookup's response, the lookup having been made at the coordinates of the
\* first geocoding result (x = longitude, y = latitude); the neighbors are
\* the adjacency resolver's output for that feature and the marker is at the
\* first geocoding result.
C14_SearchSelection ==
    [][\A i \in 1..Len(inflight) :
          LET p == inflight[i]
          IN  p.kind = "search" =>
                /\ (p.pc = "geocode" /\ Len(inflight') = Len(inflight)) =>
                      \A resp \in NominatimResponses :
                         (~geocodeAddressResult(resp).threw /\ GeocodeResponse(i, resp))
                           => LET lat == ParseFloat(resp.body[1].lat)
                                  lng == ParseFloat(resp.body[1].lon)
                              IN  /\ inflight'[i].location[1].lat = lat
                                  /\ inflight'[i].location[1].lng = lng
                                  /\ inflight'[i].pc = "point"
                                  /\ inflight'[i].request.point = <<[x |-> lng, y |-> lat]>>
                /\ (p.pc = "point" /\ Len(inflight') = Len(inflight)) =>
                      \A resp \in WBDResponses :
                         (~findHUC8ByPointResult(resp).threw /\ PointResponse(i, resp))
                           => /\ inflight'[i].feature = <<resp.body.features[1]>>
                              /\ inflight'[i].location = p.location
                /\ (/\ p.pc = "adjacent"
                    /\ Len(inflight') < Len(inflight)
                    /\ inflight' = RemoveAt(inflight, i)) =>
                      \A resp \in WBDResponses :
                         LET r == findAdjacentHUC8sResult(resp)
                         IN  (~r.threw /\ AdjacentResponse(i, resp))
                               => /\ currentHUC8' = p.feature
                                  /\ mapc'.primaryHUCLayer = p.feature
                                  /\ mapc'.adjacentHUCLayer = r.value[1]
                                  /\ dom'.adjacentList = r.value[1]
                                  /\ dom'.hucCodeEl = p.feature[1].huc8
                                  /\ mapc'.markerLayer =
                                        <<[lat |-> p.location[1].lat,
                                           lng |-> p.location[1].lng]>>]_vars

\* C14 witness: a search for "dc" has succeeded: the marker is at the first
\* geocoding result (40, -74), the primary is the first feature of the point
\* lookup and the other feature is its neighbor.
C14_Witness ==
    /\ inflight = <<>>
    /\ mapc.markerLayer = <<[lat |-> 40, lng |-> -74]>>
    /\ currentHUC8 = <<FeatA>>
    /\ mapc.primaryHUCLayer = <<FeatA>>
    /\ mapc.adjacentHUCLayer = <<FeatB>>
    /\ dom.adjacentList = <<FeatB>>

\* the result of the last service call a test awaited
LastOutcome(call) == hist.outcome # <<>> /\ hist.outcome[1].call = call

\* C15: geocodeAddress fails with the not-found error exactly when the
\* response is successful with zero results; it fails with an error whose
\* message carries the HTTP status whenever the response is not successful,
\* whatever the result count; otherwise it returns the first result.
C15_GeocodeOutcome ==
    LastOutcome("geocodeAddress") =>
        LET resp == hist.outcome[1].response
            r == hist.outcome[1].result
            notFound == /\ r.threw /\ r.error.isError
                        /\ r.error.message =
                              <<"Address not found. Please try a different search.">>
        IN  /\ notFound <=> (~resp.rejected /\ resp.ok /\ Len(resp.body) = 0)
            /\ (~resp.rejected /\ ~resp.ok)
                 => /\ r.threw /\ r.error.isError
                    /\ r.error.message[1] = "Geocoding failed: "
                    /\ Includes(r.error.message, NumberToString(resp.status))
            /\ (~resp.rejected /\ resp.ok /\ Len(resp.body) > 0)
                 => /\ ~r.threw
                    /\ r.value = <<[lat |-> ParseFloat(resp.body[1].lat),
                                    lng |-> ParseFloat(resp.body[1].lon),
                                    displayName |-> resp.body[1].display_name]>>

\* C15 witness: a response with status 500 and no result has made
\* geocodeAddress fail with the status in the message.
C15_Witness ==
    /\ LastOutcome("geocodeAddress")
    /\ ~hist.outcome[1].response.ok
    /\ hist.outcome[1].response.status = 500
    /\ Len(hist.outcome[1].response.body) = 0
    /\ hist.outcome[1].result.error.message = <<"Geocoding failed: ", "500">>

\* C16: findHUC8ByPoint fails with the no-boundary error (no HUC8 found, the
\* location must be within the United States) if and only if the response is
\* successful with no or absent features; a rejected fetch or a response
\* that is not successful fails with "HUC8 lookup failed: " followed by the
\* cause (the HTTP status among it), never with the no-boundary error.
C16_PointOutcome ==
    LastOutcome("findHUC8ByPoint") =>
        LET resp == hist.outcome[1].response
            r == hist.outcome[1].result
            noBoundary ==
                /\ r.threw /\ r.error.isError
                /\ r.error.message =
                      <<"No HUC8", " found for this location. Please ensure the location is within the United States.">>
            lookupFailed ==
                /\ r.threw /\ r.error.isError
                /\ r.error.message[1] = "HUC8 lookup failed: "
        IN  /\ noBoundary <=>
                  /\ ~resp.rejected /\ resp.ok
                  /\ (~resp.body.hasFeatures \/ Len(resp.body.features) = 0)
            /\ r.threw => (noBoundary \/ lookupFailed) /\ ~(noBoundary /\ lookupFailed)
            /\ (~resp.rejected /\ ~resp.ok)
                 => /\ lookupFailed
                    /\ r.error.message =
                          <<"HUC8 lookup failed: ", "API request failed: ",
                            NumberToString(resp.status)>>
            /\ resp.rejected
                 => /\ lookupFailed
                    /\ Tail(r.error.message) =
                          IF resp.reason[1].isError THEN resp.reason[1].message
                          ELSE <<"Unknown error">>
            /\ ~r.threw => r.value = <<resp.body.features[1]>>

\* C16 witness: a successful response without a features member has made
\* findHUC8ByPoint fail with the no-boundary error.
C16_Witness ==
    /\ LastOutcome("findHUC8ByPoint")
    /\ hist.outcome[1].response.ok
    /\ ~hist.outcome[1].response.body.hasFeatures
    /\ hist.outcome[1].result.threw
    /\ Includes(hist.outcome[1].result.error.message, "No HUC8")

\* C17: an adjacency lookup answered successfully with an empty or absent
\* features list is a success with no neighbors: the pipeline shows its
\* result with an empty neighbor set and reports no error.  The lookup fails,
\* with "Adjacent HUC8 lookup failed: " and the cause, only when the fetch is
\* rejected or the response is not successful.
C17_EmptyAdjacencyIsSuccess ==
    [][\A i \in 1..Len(inflight) :
          (/\ Len(inflight') < Len(inflight)
           /\ inflight[i].pc = "adjacent"
           /\ inflight[i].kind # "direct"
           /\ inflight' = RemoveAt(inflight, i)) =>
            \A resp \in WBDResponses :
              AdjacentResponse(i, resp) =>
              LET p == inflight[i]
                  empty == /\ ~resp.rejected /\ resp.ok
                           /\ (~resp.body.hasFeatures \/ Len(resp.body.features) = 0)
                  failed == resp.rejected \/ ~resp.ok
              IN  /\ empty =>
                        /\ currentHUC8' = p.feature
                        /\ mapc'.primaryHUCLayer = p.feature
                        /\ mapc'.adjacentHUCLayer = <<>>
                        /\ dom'.adjacentList = <<>>
                        /\ ~dom'.resultsPanelHidden
                  /\ ~failed =>
                        /\ currentHUC8' = p.feature
                        /\ dom'.errorHidden = dom.errorHidden
                        /\ dom'.errorText = dom.errorText
                  /\ failed =>
                        /\ ~dom'.errorHidden
                        /\ dom'.errorText[1] = "Adjacent HUC8 lookup failed: "
                        /\ Tail(dom'.errorText) =
                              IF ~resp.rejected
                              THEN <<"API request failed: ", NumberToString(resp.status)>>
                              ELSE IF resp.reason[1].isError
                              THEN resp.reason[1].message
                              ELSE <<"Unknown error">>
                        /\ currentHUC8' = currentHUC8]_vars

\* C17 witness: a pipeline has ended with a primary feature, no neighbor and
\* no error shown.
C17_Witness ==
    /\ inflight = <<>>
    /\ currentHUC8 # <<>>
    /\ mapc.primaryHUCLayer = currentHUC8
    /\ mapc.adjacentHUCLayer = <<>>
    /\ dom.adjacentList = <<>>
    /\ ~dom.resultsPanelHidden
    /\ dom.errorHidden

\* C18: no failure of a pipeline step leaves handleSearch or selectHUC8:
\* their promises never reject, and every failing step settles the
\* invocation with the failure shown as an error message.
C18_FailuresCaught ==
    /\ [](~hist.rejected)
    /\ [][\A i \in 1..Len(inflight) :
            Fails(i) => /\ inflight' = RemoveAt(inflight, i)
                        /\ ~dom'.errorHidden
                        /\ dom'.errorText # <<>>
                        /\ ~hist'.rejected]_vars

\* C18 witness: a search whose geocoding found no address has settled, its
\* promise fulfilled and the failure shown.
C18_Witness ==
    /\ inflight = <<>>
    /\ ~hist.rejected
    /\ Shows(dom, <<"Address not found. Please try a different search.">>)

\* C19: a non-empty submission hides the error element before the first
\* provider call, and while a search is in progress no error of an action
\* earlier than the search is shown: none is left from before its start, and
\* no pipeline started before it fails during it (inflight is in start
\* order).
C19_NoEarlierErrorInSearch ==
    /\ [][\A input \in QueryInputs :
            (Trim(input) # <<>> /\ handleSearch(input)) => dom'.errorHidden]_vars
    /\ [][\A j \in 1..Len(inflight) :
            Fails(j) => ~\E i \in (j + 1)..Len(inflight) :
                            inflight[i].kind = "search"]_vars

\* the user action of this step starts a pipeline
StartsPipeline ==
    \/ \E input \in QueryInputs : Trim(input) # <<>> /\ handleSearch(input)
    \/ \E k \in 1..Len(mapc.adjacentHUCLayer) : ClickMapLayer(k)
    \/ \E k \in 1..Len(dom.adjacentList) : ClickListButton(k)

\* the error element shows the error of a failed pipeline
ShowsFailure(d) ==
    ~d.errorHidden /\ d.errorText # <<"Please enter an address or zip code.">>

\* C20: the error of a failed search or neighbor selection is no longer
\* shown after the next user action that starts a pipeline, a non-empty
\* submission or a neighbor selection.
C20_ErrorTransient ==
    [][(ShowsFailure(dom) /\ StartsPipeline) => dom'.errorHidden]_vars

\* C21: a query submitted again runs the full pipeline again: the search
\* sends its own geocoding request, then its own point lookup at the location
\* that request returned, then its own adjacency lookup for the feature that
\* lookup returned, holding no location and no feature before its own
\* responses; and the result of the pipeline that completed last is the one
\* selected.
C21_RepeatRunsFully ==
    /\ \A i \in 1..Len(inflight) :
          LET p == inflight[i]
          IN  (p.kind = "search" /\ p.repeat) =>
                /\ p.pc \in {"rateLimitWait", "geocode", "point", "adjacent"}
                /\ p.pc = "rateLimitWait" =>
                      p.calls = <<>> /\ p.location = <<>> /\ p.feature = <<>>
                /\ p.pc = "geocode" =>
                      /\ p.calls = <<"geocode">>
                      /\ p.request = geocodeRequest(p.query)
                      /\ p.location = <<>> /\ p.feature = <<>>
                /\ p.pc = "point" =>
                      /\ p.calls = <<"geocode", "point">>
                      /\ p.location # <<>> /\ p.feature = <<>>
                      /\ p.request = pointRequest(p.location[1].lat, p.location[1].lng)
                /\ p.pc = "adjacent" =>
                      /\ p.calls = <<"geocode", "point", "adjacent">>
                      /\ p.location # <<>> /\ p.feature # <<>>
                      /\ p.request = adjacentRequest(p.feature[1].geometry)
    /\ hist.adjacent # <<>> =>
          /\ currentHUC8 = <<hist.adjacent[1].source>>
          /\ dom.adjacentList = hist.adjacent[1].output

\* C21 witness: the query has been submitted again after its first result
\* (the first feature, with the marker of a search) was shown, and the point
\* lookup of the second run has returned the other feature.
C21_Witness ==
    /\ currentHUC8 = <<FeatA>>
    /\ mapc.markerLayer # <<>>
    /\ \E i \in 1..Len(inflight) :
          /\ inflight[i].kind = "search" /\ inflight[i].repeat
          /\ inflight[i].pc = "adjacent"
          /\ inflight[i].feature = <<FeatB>>

\* C22: no geocodeAddress invocation (its rate-limit wait included) starts
\* while another has not settled: no two invocations are in the rate-limit
\* wait or the geocoding request at the same time.
C22_NoConcurrentGeocoding ==
    \A i, j \in 1..Len(inflight) :
        (/\ inflight[i].pc \in {"rateLimitWait", "geocode"}
         /\ inflight[j].pc \in {"rateLimitWait", "geocode"}) => i = j

\* C23: responses carry no generation check: the selection (current feature,
\* primary layer, neighbor layers and neighbor list) is that of the pipeline
\* whose adjacency lookup succeeded last, also when a pipeline started after
\* it had already redrawn the selection.
C23_LastCompletedWins ==
    hist.adjacent # <<>> =>
        /\ currentHUC8 = <<hist.adjacent[1].source>>
        /\ mapc.primaryHUCLayer = <<hist.adjacent[1].source>>
        /\ mapc.adjacentHUCLayer = hist.adjacent[1].output
        /\ dom.adjacentList = hist.adjacent[1].output
        /\ dom.hucCodeEl = hist.adjacent[1].source.huc8

\* C23 witness: the pipeline that completed last had been overtaken by one
\* started after it, and it is its feature that is selected, not the other
\* one.
C23_Witness ==
    /\ hist.adjacent # <<>>
    /\ hist.adjacent[1].overtaken
    /\ inflight = <<>>
    /\ currentHUC8 = <<hist.adjacent[1].source>>

\* C24: the selection is replaced as a whole: in every state between events
\* the current feature, the primary layer (the only primary layer on the map)
\* and the feature of the info panel are the same feature, or all absent, and
\* the neighbor layers on the map are exactly the features of the neighbor
\* list, in the same order.
C24_SelectionWhole ==
    /\ mapc.primaryHUCLayer = currentHUC8
    /\ mapc.mapLayers = currentHUC8
    /\ IF currentHUC8 = <<>>
       THEN dom.hucCodeEl = "" /\ dom.hucNameEl = ""
       ELSE /\ dom.hucCodeEl = currentHUC8[1].huc8
            /\ dom.hucNameEl = currentHUC8[1].name
    /\ mapc.adjacentHUCLayer = dom.adjacentList

\* C24 witness: a selection with a neighbor has been replaced by a
\* re-selection of another feature with a neighbor of its own.
C24_Witness ==
    /\ currentHUC8 = <<FeatB>>
    /\ mapc.markerLayer = <<>>
    /\ dom.adjacentList = <<FeatA>>
    /\ mapc.adjacentHUCLayer = <<FeatA>>
    /\ inflight = <<>>

\* C25: for every feature of the displayed neighbor set, the button of the
\* neighbor list resolves to the feature its map layer carries, and a click on
\* either starts a selection of exactly that feature.
C25_SameFeatureEitherWay ==
    /\ [](/\ Len(dom.adjacentList) = Len(mapc.adjacentHUCLayer)
          /\ \A k \in 1..Len(mapc.adjacentHUCLayer) :
                findByCode(dom.adjacentList, dom.adjacentList[k].huc8)
                    = <<mapc.adjacentHUCLayer[k]>>)
    /\ [][\A k \in 1..Len(mapc.adjacentHUCLayer) :
            (/\ Len(inflight') = Len(inflight) + 1
             /\ ClickMapLayer(k) \/ ClickListButton(k))
            => /\ inflight'[Len(inflight')].kind = "select"
               /\ inflight'[Len(inflight')].feature = <<mapc.adjacentHUCLayer[k]>>
               /\ inflight'[Len(inflight')].args
                      = <<mapc.adjacentHUCLayer[k].geometry>>]_vars

\* C25 witness: two neighbors are displayed and a selection of the second one
\* has been started by a click.
C25_Witness ==
    /\ Len(mapc.adjacentHUCLayer) = 2
    /\ \E i \in 1..Len(inflight) :
          /\ inflight[i].kind = "select"
          /\ inflight[i].feature = <<mapc.adjacentHUCLayer[2]>>
          /\ inflight[i].feature = <<dom.adjacentList[2]>>

\* the number of rings of the polygons before the i-th polygon
RECURSIVE RingsBefore(_, _)
RingsBefore(polygons, i) ==
    IF i <= 1 THEN 0
    ELSE RingsBefore(polygons, i - 1) + Len(polygons[i - 1])

\* rings is the list of all rings of the geometry, in order
RingsOf(geometry, rings) ==
    IF geometry.type = "Polygon"
    THEN /\ Len(rings) = Len(geometry.coordinates)
         /\ \A j \in 1..Len(rings) : rings[j] = geometry.coordinates[j]
    ELSE LET polygons == geometry.coordinates
         IN  /\ Len(rings) = RingsBefore(polygons, Len(polygons) + 1)
             /\ \A i \in 1..Len(polygons) :
                   \A j \in 1..Len(polygons[i]) :
                       rings[RingsBefore(polygons, i) + j] = polygons[i][j]

\* C26: the rings sent with an adjacency request are, for a Polygon, its
\* coordinate rings in order and, for a MultiPolygon, all rings of all its
\* polygons in order as one flat list: as many rings as the geometry has.
C26_RingsSent ==
    \A i \in 1..Len(inflight) :
        inflight[i].pc = "adjacent" =>
            /\ inflight[i].feature # <<>>
            /\ RingsOf(inflight[i].feature[1].geometry, inflight[i].request.rings)

\* C26 witness: adjacency requests are in flight for the Polygon (two rings)
\* and for the MultiPolygon (one ring and two rings, sent as three).
C26_Witness ==
    /\ \E i \in 1..Len(inflight) :
          /\ inflight[i].pc = "adjacent"
          /\ inflight[i].feature[1].geometry.type = "MultiPolygon"
          /\ inflight[i].request.rings = <<"b1", "b2", "b3">>
    /\ \E i \in 1..Len(inflight) :
          /\ inflight[i].pc = "adjacent"
          /\ inflight[i].feature[1].geometry.type = "Polygon"
          /\ inflight[i].request.rings = <<"a1", "a2">>

\* C27: after clearAll, whatever calls of displayPrimaryHUC,
\* displayAdjacentHUCs and addSearchMarker were made before it, the map holds
\* no primary layer, no neighbor layer and no search marker.
C27_ClearAllClearsMap ==
    LastOutcome("clearAll") =>
        /\ mapc.primaryHUCLayer = <<>>
        /\ mapc.mapLayers = <<>>
        /\ mapc.adjacentHUCLayer = <<>>
        /\ mapc.markerLayer = <<>>

\* C28: the timestamp of the rate limiter is the time a call acquired its
\* slot, whether its request then failed or succeeded: once a call has
\* settled, the timestamp is its acquisition time, and the next geocodeAddress
\* call, started less than MIN_REQUEST_INTERVAL after that time, waits until
\* MIN_REQUEST_INTERVAL after it, after a failure as after a success.
C28_FailureConsumesSlot ==
    /\ []((/\ LastOutcome("geocodeAddress")
           /\ hist.settledAcquire > 0
           /\ inflight = <<>>) => lastRequestTime = hist.settledAcquire)
    /\ [][\A query \in {Trim(q) : q \in QueryInputs} \ {<<>>} :
            (/\ Len(inflight') = 1
             /\ LastOutcome("geocodeAddress")
             /\ hist.settledAcquire > 0
             /\ now - hist.settledAcquire < MIN_REQUEST_INTERVAL
             /\ TestGeocodeAddress(query))
            => /\ inflight'[1].pc = "rateLimitWait"
               /\ inflight'[1].calls = <<>>
               /\ inflight'[1].timerAt = hist.settledAcquire + MIN_REQUEST_INTERVAL
               /\ lastRequestTime' = hist.settledAcquire]_vars

\* C28 witness: a request was answered with a failing status or with zero
\* results, and a call started later, less than MIN_REQUEST_INTERVAL after the
\* failed call acquired its slot, is waiting for the rest of the interval.
C28_Witness ==
    /\ LastOutcome("geocodeAddress")
    /\ hist.outcome[1].result.threw
    /\ hist.outcome[1].response.reason = <<>>
    /\ Len(inflight) = 1
    /\ inflight[1].pc = "rateLimitWait"
    /\ now > hist.settledAcquire
    /\ inflight[1].timerAt = hist.settledAcquire + MIN_REQUEST_INTERVAL
    /\ inflight[1].timerAt > now

\* C29: at most one search marker is on the map, and one is there exactly
\* when the last successful redraw was that of a search: a successful
\* re-selection of a neighbor removes the marker and plots none.
C29_MarkerIffSearch ==
    /\ Len(mapc.markerLayer) <= 1
    /\ mapc.markerLayer # <<>>
          <=> (hist.adjacent # <<>> /\ hist.adjacent[1].kind = "search")

\* C29 witness: the last successful redraw was a re-selection of a neighbor
\* (so a search had plotted a marker before it) and no marker is on the map.
C29_Witness ==
    /\ hist.adjacent # <<>>
    /\ hist.adjacent[1].kind = "select"
    /\ mapc.markerLayer = <<>>
    /\ mapc.primaryHUCLayer # <<>>

============================================================================
